---- MODULE Spec2Model ----
\* Model of st_app.py: a Streamlit script that is re-run from top to bottom on
\* every interaction (page selection, file upload, file removal).  One run
\* reads the two sidebar widgets, loads and feature-engineers the uploaded CSV,
\* and renders the selected page.
EXTENDS Integers, Sequences, FiniteSets, TLC

\* page: the value of the sidebar radio; file: the value of the upload
\* control; df: the module-level df of the last run; out: what the last run
\* rendered; last: the interaction that triggered the last run.
VARIABLES page, file, df, out, last

vars == <<page, file, df, out, last>>

----------------------------------------------------------------------------
\* Bounds of the model.

\* Timestamps are counted in ticks; a day has TicksPerDay ticks, so that a
\* difference of two timestamps can be a fraction of a day.
TicksPerDay == 2

\* Longest table of the exhaustively enumerated uploads.
MaxRows == 2

\* Largest number of rows (and of distinct keys) of the generated wide tables.
MaxGroups == 15

\* Number of delay patterns of the generated wide tables.
MaxSeed == 2

----------------------------------------------------------------------------
\* Values.  A cell of a data frame is either missing (NaN, NaT) or a number;
\* timestamps are numbers of ticks, identifiers are numbers.

NaN == <<>>

Num(x) == <<x>>

IsNaN(v) == v = NaN

Val(v) == v[1]

\* Comparisons of a cell with a number, as Python compares floats: every
\* comparison with NaN is False.
LE(v, n) == ~IsNaN(v) /\ Val(v) <= n

EQ(v, n) == ~IsNaN(v) /\ Val(v) = n

\* Timestamp subtraction (Series - Series): NaT when either side is NaT.
Sub(a, b) == IF IsNaN(a) \/ IsNaN(b) THEN NaN ELSE Num(Val(a) - Val(b))

\* Truncation of a tick count toward zero (the "days" a mistaken reading
\* of Timedelta.days would give).
DaysTowardZero(td) ==
    IF IsNaN(td) THEN NaN
    ELSE IF Val(td) >= 0 THEN Num(Val(td) \div TicksPerDay)
    ELSE Num(0 - ((0 - Val(td)) \div TicksPerDay))

\* Series.dt.days: the days component of a timedelta, which pandas
\* normalises so that the remainder is non-negative (floor), NaN for NaT.
Days(td) == IF IsNaN(td) THEN NaN ELSE Num(Val(td) \div TicksPerDay)

\* A bucketing whose upper threshold is exclusive.
DelayCategoryExclusive(d) ==
    IF LE(d, 0) THEN "On-time"
    ELSE IF ~IsNaN(d) /\ Val(d) < 7 THEN "Slightly Late" ELSE "Very Late"

\* lambda d: "On-time" if d <= 0 else ("Slightly Late" if d <= 7 else "Very Late")
DelayCategory(d) ==
    IF LE(d, 0) THEN "On-time"
    ELSE IF LE(d, 7) THEN "Slightly Late" ELSE "Very Late"

\* A bucketing whose lower threshold is exclusive.
ReviewCategoryExclusive(s) ==
    IF ~IsNaN(s) /\ Val(s) < 2 THEN "Bad"
    ELSE IF EQ(s, 3) THEN "Neutral" ELSE "Good"

\* lambda s: "Bad" if s <= 2 else ("Neutral" if s == 3 else "Good")
ReviewCategory(s) ==
    IF LE(s, 2) THEN "Bad"
    ELSE IF EQ(s, 3) THEN "Neutral" ELSE "Good"

----------------------------------------------------------------------------
\* Rows and tables.

RawRow(s, c, p, pur, app, del, est, score, fr) ==
    [seller_id |-> s, customer_city |-> c, product_id |-> p,
     order_purchase_timestamp |-> pur, order_approved_at |-> app,
     order_delivered_customer_date |-> del,
     order_estimated_delivery_date |-> est,
     review_score |-> score, freight_value |-> fr]

\* The four derived columns of one row.
DeriveRow(r) ==
    LET dd == Days(Sub(r.order_delivered_customer_date,
                       r.order_estimated_delivery_date))
        pt == Days(Sub(r.order_approved_at, r.order_purchase_timestamp))
    IN  [seller_id |-> r.seller_id, customer_city |-> r.customer_city,
         product_id |-> r.product_id,
         order_purchase_timestamp |-> r.order_purchase_timestamp,
         order_approved_at |-> r.order_approved_at,
         order_delivered_customer_date |-> r.order_delivered_customer_date,
         order_estimated_delivery_date |-> r.order_estimated_delivery_date,
         review_score |-> r.review_score, freight_value |-> r.freight_value,
         delivery_delay |-> dd, processing_time |-> pt,
         delay_category |-> DelayCategory(dd),
         review_category |-> ReviewCategory(r.review_score)]

Derive(rows) == [i \in 1..Len(rows) |-> DeriveRow(rows[i])]

----------------------------------------------------------------------------
\* The upload control and the loader.

NoFile == [kind |-> "none", rows |-> <<>>]

Csv(rows) == [kind |-> "csv", rows |-> rows]

\* Uploads that cannot be loaded: a file that is not CSV, a CSV without one
\* of the four timestamp columns, a CSV whose timestamp cells are not dates.
BadKinds == {"malformed", "missing_column", "bad_dates"}

BadFile(k) == [kind |-> k, rows |-> <<>>]

None == [state |-> "None", rows |-> <<>>]

Unbound == [state |-> "unbound", rows |-> <<>>]

Frame(rows) == [state |-> "frame", rows |-> rows]

\* A loader that keeps the previous run's data frame when no file is held.
LoadKeepStale(f, old) ==
    IF f.kind = "none" THEN {old}
    ELSE IF f.kind \in BadKinds THEN {Unbound}
    ELSE IF f.rows = <<>> THEN {Unbound, Frame(<<>>)}
    ELSE {Frame(Derive(f.rows))}

\* Lines 25-47.  The result is the value bound to df, or Unbound when an
\* exception left the script before df was assigned: read_csv raises on a
\* malformed file and on a missing parse_dates column; unparseable dates are
\* left as strings by read_csv and the subtraction of line 36 raises.  A CSV
\* with a header and no rows is read without date conversion by some pandas
\* versions, and then the .dt accessor of line 36 raises: both outcomes are
\* kept.  `old` is the previous run's df, which the script never reads.
Load(f, old) ==
    IF f.kind = "none" THEN {None}
    ELSE IF f.kind \in BadKinds THEN {Unbound}
    ELSE IF f.rows = <<>> THEN {Unbound, Frame(<<>>)}
    ELSE {Frame(Derive(f.rows))}

----------------------------------------------------------------------------
\* The aggregation of the Factors and Causes page.

TopN == 10

Min(a, b) == IF a <= b THEN a ELSE b

\* The rows of a group: groupby drops the rows whose key is missing.
GroupRows(rows, keycol, k) == {i \in 1..Len(rows) : rows[i][keycol] = Num(k)}

GroupKeys(rows, keycol) ==
    {Val(rows[i][keycol]) : i \in {j \in 1..Len(rows) : ~IsNaN(rows[j][keycol])}}

RECURSIVE SumVals(_, _, _)
SumVals(rows, col, I) ==
    IF I = {} THEN 0
    ELSE LET i == CHOOSE x \in I : TRUE
         IN  Val(rows[i][col]) + SumVals(rows, col, I \ {i})

\* A mean is the pair of the sum and the number of the values it averages;
\* cnt = 0 stands for NaN.
NaNMean == [sum |-> 0, cnt |-> 0]

\* GroupBy.mean() of one column over one group: undefined values are
\* skipped, and the mean of no value is NaN.
Mean(rows, col, I) ==
    LET D == {i \in I : ~IsNaN(rows[i][col])}
    IN  IF D = {} THEN NaNMean
        ELSE [sum |-> SumVals(rows, col, D), cnt |-> Cardinality(D)]

MeanGT(a, b) == a.cnt > 0 /\ b.cnt > 0 /\ a.sum * b.cnt > b.sum * a.cnt

MeanGE(a, b) == a.cnt > 0 /\ b.cnt > 0 /\ a.sum * b.cnt >= b.sum * a.cnt

\* df.groupby(keycol)[[three metrics]].mean(): one row per distinct key.
GroupBy(rows, keycol) ==
    {[key |-> k,
      delivery_delay |-> Mean(rows, "delivery_delay", GroupRows(rows, keycol, k)),
      processing_time |-> Mean(rows, "processing_time", GroupRows(rows, keycol, k)),
      freight_value |-> Mean(rows, "freight_value", GroupRows(rows, keycol, k))]
     : k \in GroupKeys(rows, keycol)}

\* The groups whose mean delay is defined, and those whose mean is NaN.
Defined(G) == {g \in G : g.delivery_delay.cnt > 0}

\* The groups in the order of their keys, which is the order of the rows of
\* the grouped frame (groupby sorts the keys).
RECURSIVE KeyOrder(_)
KeyOrder(G) ==
    IF G = {} THEN <<>>
    ELSE LET g == CHOOSE x \in G : \A y \in G : x.key <= y.key
         IN  <<g>> \o KeyOrder(G \ {g})

\* An ascending sort.
FirstOfAscending(D) ==
    {g \in D : \A h \in D : ~MeanGT(g.delivery_delay, h.delivery_delay)}

\* The groups that may come first in a descending sort of D: those of the
\* largest mean.
FirstOf(D) ==
    {g \in D : \A h \in D : ~MeanGT(h.delivery_delay, g.delivery_delay)}

\* The descending orders of the groups of defined mean.  The sort is not
\* stable, so the order of equal means is not determined: the result is any
\* one of these sequences.
RECURSIVE Descending(_)
Descending(D) ==
    IF D = {} THEN {<<>>}
    ELSE UNION {{<<g>> \o s : s \in Descending(D \ {g})} : g \in FirstOf(D)}

\* .sort_values("delivery_delay", ascending=False): descending, and the
\* rows of NaN mean last (na_position="last"), in the order they had.
SortValues(G) == {s \o KeyOrder(G \ Defined(G)) : s \in Descending(Defined(G))}

\* .head(n)
head(s, n) == SubSeq(s, 1, Min(n, Len(s)))

\* The views that lines 114-120, 134-140 and 154-160 can produce.
TopGroups(rows, keycol) == {head(s, TopN) : s \in SortValues(GroupBy(rows, keycol))}

----------------------------------------------------------------------------
\* The pages.  What a run renders in the main area: the page title, the
\* elements below it in order, the data of the three bar charts, and how the
\* run ended ("done": the script ran to its end; "stopped": st.stop();
\* "exception": an exception left the script, which Streamlit reports in
\* place of the rest of the page).

Rendered(t, es, s, c, p, st) ==
    [title |-> t, elements |-> es, sellers |-> s, cities |-> c,
     products |-> p, status |-> st]

Text(t, es, st) == Rendered(t, es, <<>>, <<>>, <<>>, st)

Raised == Text("", <<"exception">>, "exception")

\* Lines 52-68.
Welcome(d) == {Text("Customer Satisfaction Case Study", <<"markdown">>, "done")}

\* Lines 73-99.
Understanding(d) ==
    IF d = None
    THEN {Text("Understanding the Problem", <<"warning">>, "stopped")}
    ELSE {Text("Understanding the Problem",
               <<"markdown", "fig_delay", "fig_proc", "fig_freight">>, "done")}

\* A Factors page that reads the first row of the sorted frame and raises
\* when no group has a defined mean delay.
FactorsStrict(d) ==
    IF d = None
    THEN {Text("Factors and Causes", <<"warning">>, "stopped")}
    ELSE IF Defined(GroupBy(d.rows, "seller_id")) = {}
    THEN {Raised}
    ELSE {Rendered("Factors and Causes",
                   <<"markdown", "fig_sellers", "fig_cities", "fig_products">>,
                   s, c, p, "done")
          : s \in TopGroups(d.rows, "seller_id"),
            c \in TopGroups(d.rows, "customer_city"),
            p \in TopGroups(d.rows, "product_id")}

\* Lines 104-171.
Factors(d) ==
    IF d = None
    THEN {Text("Factors and Causes", <<"warning">>, "stopped")}
    ELSE {Rendered("Factors and Causes",
                   <<"markdown", "fig_sellers", "fig_cities", "fig_products">>,
                   s, c, p, "done")
          : s \in TopGroups(d.rows, "seller_id"),
            c \in TopGroups(d.rows, "customer_city"),
            p \in TopGroups(d.rows, "product_id")}

\* Lines 176-189.
Conclusion(d) == {Text("Conclusion & Insights", <<"markdown">>, "done")}

\* Lines 52, 73, 104, 176: the page whose name the radio holds is rendered.
Route(p, d) ==
    CASE p = "Welcome" -> Welcome(d)
      [] p = "Understanding the Problem" -> Understanding(d)
      [] p = "Factors and Causes" -> Factors(d)
      [] p = "Conclusion and Insights" -> Conclusion(d)

PAGES == {"Welcome", "Understanding the Problem", "Factors and Causes",
          "Conclusion and Insights"}

\* One run of the script with the widgets holding p and f: the pairs of the
\* data frame it binds and the page it renders.  An exception in the loader
\* leaves the script before line 52.
Script(p, f, old) ==
    UNION {IF d = Unbound THEN {<<d, Raised>>} ELSE {<<d, o>> : o \in Route(p, d)}
           : d \in Load(f, old)}

----------------------------------------------------------------------------
\* The uploads the model draws from.

Tables(R, n) == UNION {[1..k -> R] : k \in 0..n}

KeyCols == {"seller_id", "customer_city", "product_id"}

\* Rows of the interactive session: two sellers, one of them without a
\* product id, delivered early by a fraction of a day, late, or never.
AppRows ==
    {RawRow(Num(s), Num(1), IF s = 1 THEN Num(1) ELSE NaN, Num(0), Num(1),
            del, Num(2 * TicksPerDay), Num(2 + s), Num(s))
     : s \in 1..2, del \in {NaN, Num(2 * TicksPerDay - 1), Num(5 * TicksPerDay)}}

\* The files of the interactive session: the three that cannot be loaded
\* and the tables of one row or more.
AppFiles ==
    {BadFile(k) : k \in BadKinds}
        \cup {Csv(t) : t \in Tables(AppRows, MaxRows) \ {<<>>}}

\* Rows that vary the two delivery dates: the delivery is missing or at the
\* first or the last tick of one of these days, and the estimate is at the
\* start of day 1; or the estimate is missing.
DeliveredDays == {0, 1, 8, 9}

DateRow(del, est) ==
    RawRow(Num(1), Num(1), Num(1), Num(0), Num(1), del, est, Num(5), Num(1))

DateRows ==
    {DateRow(del, Num(TicksPerDay))
     : del \in {NaN} \cup {Num(d * TicksPerDay + f)
                           : d \in DeliveredDays, f \in {0, TicksPerDay - 1}}}
    \cup {DateRow(del, NaN) : del \in {NaN, Num(0)}}

\* Rows that vary the review score.
ScoreRows ==
    {RawRow(Num(2), Num(1), Num(1), Num(0), NaN, Num(0), Num(0), sc, Num(1))
     : sc \in {NaN} \cup {Num(x) : x \in 1..5}}

\* Wide tables: n rows with n distinct keys in one key column and two keys
\* in the others.  Pattern 0 leaves every delivery date missing; pattern
\* m > 0 spreads the deliveries around the estimate, a few of them on the
\* same day, and leaves some missing.
WideRow(i, m, wide) ==
    RawRow(IF wide = "seller_id" THEN Num(i) ELSE Num(i % 2),
           IF wide = "customer_city" THEN Num(i) ELSE Num(i % 2),
           IF wide = "product_id" THEN Num(i) ELSE Num(i % 2),
           Num(0), Num(i),
           IF m = 0 \/ (i + m) % 5 = 0 THEN NaN
           ELSE Num(TicksPerDay * ((i * m) % 13) + (i % 2)),
           Num(6 * TicksPerDay), Num(1 + (i % 5)), Num(i))

WideTables ==
    {[i \in 1..n |-> WideRow(i, m, w)] : n \in 0..MaxGroups, m \in 0..MaxSeed, w \in KeyCols}

BatchFiles ==
    {Csv(t) : t \in Tables(DateRows \cup ScoreRows, MaxRows) \cup WideTables}

----------------------------------------------------------------------------
\* The session.  Streamlit runs the script once when the session starts and
\* again on every change of a widget.

Init ==
    /\ page = "Welcome"
    /\ file = NoFile
    /\ df = None
    /\ out \in Welcome(None)
    /\ last = "start"

\* One run of the script with the widgets holding p and f.
Run(p, f) ==
    /\ page' = p
    /\ file' = f
    /\ \E r \in Script(p, f, df) : df' = r[1] /\ out' = r[2]

\* The user picks another page in the radio of line 17.
SelectPage(p) ==
    /\ p # page
    /\ Run(p, file)
    /\ last' = "select"

\* The user puts a file in the upload control of line 20, in place of the
\* one it holds, if any.
Upload(f) ==
    /\ f # file
    /\ Run(page, f)
    /\ last' = IF file = NoFile THEN "upload" ELSE "replace"

\* The user removes the file from the upload control.
Remove ==
    /\ file # NoFile
    /\ Run(page, NoFile)
    /\ last' = "remove"

Next ==
    \/ \E p \in PAGES : SelectPage(p)
    \/ \E f \in AppFiles : Upload(f)
    \/ Remove

Spec == Init /\ [][Next]_vars

\* A session with a single upload, drawn from the larger set of tables.
FirstUpload(f) == file = NoFile /\ Upload(f)

NextUpload ==
    \/ \E p \in PAGES : SelectPage(p)
    \/ \E f \in BatchFiles : FirstUpload(f)

SpecUpload == Init /\ [][NextUpload]_vars

----------------------------------------------------------------------------
\* Properties.

\* The view of one grouping key in the rendered page.
View(col) ==
    CASE col = "seller_id" -> out.sellers
      [] col = "customer_city" -> out.cities
      [] col = "product_id" -> out.products

\* The distinct key values of the uploaded rows.
FileKeys(col) ==
    {Val(file.rows[i][col]) : i \in {j \in 1..Len(file.rows) : file.rows[j][col] # NaN}}

\* The ticks between the delivery and the estimate of uploaded row i.
Diff(i) ==
    Val(file.rows[i].order_delivered_customer_date)
        - Val(file.rows[i].order_estimated_delivery_date)

BothDates(i) ==
    /\ file.rows[i].order_delivered_customer_date # NaN
    /\ file.rows[i].order_estimated_delivery_date # NaN

Loaded == df.state = "frame"

\* C1 (as claimed): on each of the three pages other than Welcome, a run
\* without a file renders the warning and nothing after it.
C1_WarningOnAllThreePages ==
    (page \in PAGES \ {"Welcome"} /\ file = NoFile)
        => (out.elements = <<"warning">> /\ out.status = "stopped")

\* C2 (as claimed): a run whose upload cannot be loaded does not end in an
\* unhandled exception, and reaches the rendering of the selected page.
C2_BadUploadReachesRouting ==
    file.kind \in BadKinds
        => (out.status # "exception" /\ df # Unbound /\ out \in Route(page, df))

\* C3 (as claimed): whenever Welcome is selected the welcome content is
\* rendered and no warning is shown, whatever the upload control holds.
C3_WelcomeAlwaysRenders ==
    page = "Welcome"
        => /\ out.title = "Customer Satisfaction Case Study"
           /\ out.elements = <<"markdown">>

\* C4 (as claimed): with both dates present delivery_delay is the day
\* difference truncated toward zero, for negative differences too; with a
\* date missing it is undefined.
C4_TruncatedTowardZero ==
    Loaded =>
        \A i \in 1..Len(df.rows) :
            LET dd == df.rows[i].delivery_delay
            IN  IF BothDates(i)
                THEN /\ dd # NaN
                     /\ Diff(i) >= 0 =>
                            /\ Val(dd) * TicksPerDay <= Diff(i)
                            /\ Diff(i) < (Val(dd) + 1) * TicksPerDay
                     /\ Diff(i) < 0 =>
                            /\ (Val(dd) - 1) * TicksPerDay < Diff(i)
                            /\ Diff(i) <= Val(dd) * TicksPerDay
                ELSE dd = NaN

\* C4 (amended): with both dates present delivery_delay is the day
\* difference rounded down (toward minus infinity), which is truncation for
\* differences >= 0 and one day less than truncation for negative
\* differences with a fraction of a day; with a date missing it is undefined.
C4_RoundedDown ==
    Loaded =>
        \A i \in 1..Len(df.rows) :
            LET dd == df.rows[i].delivery_delay
            IN  IF BothDates(i)
                THEN /\ dd # NaN
                     /\ Val(dd) * TicksPerDay <= Diff(i)
                     /\ Diff(i) < (Val(dd) + 1) * TicksPerDay
                ELSE dd = NaN

\* A loaded table with a delivery a fraction of a day before the estimate,
\* and a row with a missing date.
C4_Witness ==
    /\ Loaded
    /\ \E i, j \in 1..Len(df.rows) :
        /\ BothDates(i) /\ Diff(i) < 0 /\ Diff(i) % TicksPerDay # 0
        /\ df.rows[i].delivery_delay = Num(-1)
        /\ ~BothDates(j) /\ df.rows[j].delivery_delay = NaN

\* C5 (as claimed): a row with an undefined delivery_delay does not make
\* the derivation fail, and gets none of the three delay categories.
C5_UndefinedDelayUnbucketed ==
    /\ (file.kind = "csv" /\ file.rows # <<>>) => Loaded
    /\ Loaded =>
        \A i \in 1..Len(df.rows) :
            df.rows[i].delivery_delay = NaN
                => df.rows[i].delay_category
                       \notin {"On-time", "Slightly Late", "Very Late"}

\* C6: a defined delay d is "On-time" exactly when d <= 0, "Slightly Late"
\* exactly when 0 < d <= 7, "Very Late" exactly when d > 7.
C6_DelayThresholds ==
    Loaded =>
        \A i \in 1..Len(df.rows) :
            LET dd == df.rows[i].delivery_delay
                c == df.rows[i].delay_category
            IN  dd # NaN =>
                    /\ c = "On-time" <=> Val(dd) <= 0
                    /\ c = "Slightly Late" <=> (0 < Val(dd) /\ Val(dd) <= 7)
                    /\ c = "Very Late" <=> Val(dd) > 7

\* A loaded table with a delay of 7 days and a delay of 8 days.
C6_Witness ==
    /\ Loaded
    /\ \E i, j \in 1..Len(df.rows) :
        /\ df.rows[i].delivery_delay = Num(7)
        /\ df.rows[i].delay_category = "Slightly Late"
        /\ df.rows[j].delivery_delay = Num(8)
        /\ df.rows[j].delay_category = "Very Late"

\* C7: a review score s in 1..5 is "Bad" exactly when s <= 2, "Neutral"
\* exactly when s = 3, "Good" exactly when s >= 4.
C7_ReviewThresholds ==
    Loaded =>
        \A i \in 1..Len(df.rows) :
            LET sc == file.rows[i].review_score
                c == df.rows[i].review_category
            IN  (sc # NaN /\ Val(sc) \in 1..5) =>
                    /\ c = "Bad" <=> Val(sc) <= 2
                    /\ c = "Neutral" <=> Val(sc) = 3
                    /\ c = "Good" <=> Val(sc) >= 4

\* A loaded table with a score of 2 and a score of 3.
C7_Witness ==
    /\ Loaded
    /\ \E i, j \in 1..Len(df.rows) :
        /\ file.rows[i].review_score = Num(2)
        /\ df.rows[i].review_category = "Bad"
        /\ file.rows[j].review_score = Num(3)
        /\ df.rows[j].review_category = "Neutral"

\* C8: each of the three views has one row per key and no key twice, holds
\* min(10, number of distinct keys) rows, each the means of its group, is in
\* descending order of the mean delay, and leaves out no group of a larger
\* mean delay than a group it keeps.
C8_TopTenDescending ==
    (page = "Factors and Causes" /\ Loaded) =>
        \A col \in KeyCols :
            LET v == View(col)
                G == GroupBy(df.rows, col)
                kept == {v[i] : i \in 1..Len(v)}
            IN  /\ Len(v) = Min(10, Cardinality(FileKeys(col)))
                /\ \A i, j \in 1..Len(v) : i # j => v[i].key # v[j].key
                /\ {g.key : g \in kept} \subseteq FileKeys(col)
                /\ kept \subseteq G
                /\ \A i, j \in 1..Len(v) :
                    (i < j /\ v[j].delivery_delay.cnt > 0)
                        => MeanGE(v[i].delivery_delay, v[j].delivery_delay)
                /\ \A g \in G \ kept : \A h \in kept :
                    g.delivery_delay.cnt > 0
                        => MeanGE(h.delivery_delay, g.delivery_delay)

\* A table of 15 sellers, of which the view keeps 10.
C8_Witness ==
    /\ page = "Factors and Causes"
    /\ Loaded
    /\ Cardinality(FileKeys("seller_id")) = 15
    /\ Len(out.sellers) = 10
    /\ out.sellers[10].delivery_delay.cnt > 0

C10_RenderedFromCurrentFile ==
    /\ file = NoFile => df = None
    /\ Loaded => (file.kind = "csv" /\ df.rows = Derive(file.rows))
    /\ df = Unbound => (file # NoFile /\ out = Raised)
    /\ df # Unbound => out \in Route(page, df)
    /\ \A col \in KeyCols : \A i \in 1..Len(View(col)) :
        View(col)[i].key \in FileKeys(col)

\* A run after the file was replaced, showing charts of the new file.
C10_Witness ==
    /\ last = "replace"
    /\ page = "Factors and Causes"
    /\ Loaded
    /\ out.sellers # <<>>

====
